---- MODULE Spec2Model ----
(***************************************************************************)
(* OpenAIChatCompletionBase (open_ai_chat_completion_base.py): the chat    *)
(* request normaliser and streaming aggregator, as a state machine of one  *)
(* service object serving one call at a time.                              *)
(*                                                                         *)
(* Python values are tagged with their type so that None can be compared   *)
(* with any of them: None, PyStr(s), PyList(<<..>>), PyDict(f).  Floats    *)
(* are written in tenths (temperature 0.7 is 7).                           *)
(***************************************************************************)
EXTENDS Integers, Sequences, FiniteSets, TLC

VARIABLES
    self,             \* the service object's fields (read-only after construction)
    call,             \* the public operation in progress and its arguments
    pc,               \* where the call's coroutine / generator stands
    transport_calls,  \* openai.ChatCompletion.acreate calls issued by this call
    kwargs,           \* keyword arguments of the acreate call, None before it
    usage,            \* what capture_usage_details received, None if not called
    transport_raised, \* exception the transport raised, None if it raised none
    response,         \* what acreate returned, None before it returns
    chunks,           \* chunks the transport stream has delivered so far
    frames,           \* values the generator has yielded so far
    result,           \* value returned to the caller, None if none
    raised            \* exception the caller observes, None if none

vars == <<self, call, pc, transport_calls, kwargs, usage, transport_raised, response,
          chunks, frames, result, raised>>

---------------------------------------------------------------------------
(* Python values *)

None == [none |-> TRUE]
PyStr(s) == [str |-> s]
PyList(s) == [list |-> s]
PyDict(f) == [dict |-> f]

len(x) == IF "list" \in DOMAIN x THEN Len(x.list) ELSE Cardinality(DOMAIN x.dict)

---------------------------------------------------------------------------
(* Bounds and input sets *)

MaxMessages == 2     \* longest conversation passed to a chat operation
MaxChunks == 1       \* chunks a transport stream delivers at most, under Spec
MaxStreamChunks == 3 \* the same under StreamSpec

Roles == {"system", "user", "assistant"}
Contents == {"Hello"}
Messages == Roles \X Contents
Conversations == UNION {[1..k -> Messages] : k \in 0..MaxMessages}
Prompts == {"Hello"}

ApiTypes == {"open_ai", "azure", "azure_ad"}

MaxTokensValues == {-1, 0, 1}
ResponseCounts == {1, 2, 3}

GenerationProfiles ==
    { [temperature |-> 0, top_p |-> 10, presence_penalty |-> 0,
       frequency_penalty |-> 0, stop_sequences |-> None,
       token_selection_biases |-> None],
      [temperature |-> 7, top_p |-> 5, presence_penalty |-> 1,
       frequency_penalty |-> 2, stop_sequences |-> PyList(<<>>),
       token_selection_biases |-> PyDict(<<>>)],
      [temperature |-> 10, top_p |-> 9, presence_penalty |-> 2,
       frequency_penalty |-> 1, stop_sequences |-> PyList(<<"stop">>),
       token_selection_biases |-> PyDict([t \in {50256} |-> -100])] }

\* ChatRequestSettings and CompleteRequestSettings objects (same eight fields)
RequestSettings ==
    { [temperature |-> g.temperature, top_p |-> g.top_p,
       presence_penalty |-> g.presence_penalty,
       frequency_penalty |-> g.frequency_penalty,
       max_tokens |-> t, number_of_responses |-> n,
       token_selection_biases |-> g.token_selection_biases,
       stop_sequences |-> g.stop_sequences]
      : g \in GenerationProfiles, t \in MaxTokensValues, n \in ResponseCounts }

SettingsArgs == RequestSettings \cup {None}

\* StreamSpec explores longer streams, with fewer requests
StreamConversations == {<< <<"user", "Hello">> >>}
StreamSettings == {s \in RequestSettings : s.temperature = 0} \cup {None}

\* what the transport may raise
TransportErrors == {[type |-> "APIConnectionError"], [type |-> "RateLimitError"]}

\* non-streaming responses: choices with message.content, usage present or not
ChoiceContents == {"A", "B"}
ChoiceLists == UNION {[1..k -> {[message |-> [content |-> c]] : c \in ChoiceContents}]
                        : k \in {0} \cup ResponseCounts}
UsageReport == [prompt_tokens |-> 5, completion_tokens |-> 7, total_tokens |-> 12]
Responses == {[choices |-> cs] : cs \in ChoiceLists}
                \cup {[choices |-> cs, usage |-> UsageReport] : cs \in ChoiceLists}

\* streamed chunks: one choice with a delta and an index
Deltas == { <<>>, [role |-> "assistant"], [content |-> "Hi"],
            [role |-> "assistant", content |-> "Hi"] }
ChunkIndexes == {0, 1, 2}
Chunks == {[choices |-> <<[delta |-> d, index |-> i]>>] : d \in Deltas, i \in ChunkIndexes}

---------------------------------------------------------------------------
(* Exceptions *)

AIException(error_code, message, inner_exception) ==
    [type |-> "AIException", error_code |-> error_code, message |-> message,
     inner_exception |-> inner_exception]

ValueError(message) == [type |-> "ValueError", message |-> message]
AttributeError == [type |-> "AttributeError"]
IndexError == [type |-> "IndexError"]

IsException(v) == "type" \in DOMAIN v

---------------------------------------------------------------------------
(* _send_chat_request, up to the await of openai.ChatCompletion.acreate *)

\* mutant: the max_tokens test off by one (max_tokens < 0)
preconditions_max_tokens_off_by_one(messages, request_settings) ==
    IF request_settings = None
    THEN ValueError("The request settings cannot be None")
    ELSE IF request_settings.max_tokens < 0
    THEN AIException("InvalidRequest", "The max tokens must be greater than 0", None)
    ELSE IF Len(messages) <= 0
    THEN AIException("InvalidRequest",
                     "To complete a chat you need at least one message", None)
    ELSE IF messages[Len(messages)][1] # "user"
    THEN AIException("InvalidRequest", "The last message must be from the user", None)
    ELSE None

\* mutant: absent settings reported as an InvalidRequest
preconditions_none_is_invalid_request(messages, request_settings) ==
    IF request_settings = None
    THEN AIException("InvalidRequest", "The request settings cannot be None", None)
    ELSE IF request_settings.max_tokens < 1
    THEN AIException("InvalidRequest", "The max tokens must be greater than 0", None)
    ELSE IF Len(messages) <= 0
    THEN AIException("InvalidRequest",
                     "To complete a chat you need at least one message", None)
    ELSE IF messages[Len(messages)][1] # "user"
    THEN AIException("InvalidRequest", "The last message must be from the user", None)
    ELSE None

\* the four preconditions, in the order the code tests them: the exception
\* raised, or None when the request may be sent
preconditions(messages, request_settings) ==
    IF request_settings = None
    THEN ValueError("The request settings cannot be None")
    ELSE IF request_settings.max_tokens < 1
    THEN AIException("InvalidRequest", "The max tokens must be greater than 0", None)
    ELSE IF Len(messages) <= 0
    THEN AIException("InvalidRequest",
                     "To complete a chat you need at least one message", None)
    ELSE IF messages[Len(messages)][1] # "user"
    THEN AIException("InvalidRequest", "The last message must be from the user", None)
    ELSE None

\* mutant: azure_ad not routed by deployment
model_args_azure_only(api_type, model_id) ==
    IF api_type = "azure"
    THEN [engine |-> model_id]
    ELSE [model |-> model_id]

model_args(api_type, model_id) ==
    IF api_type \in {"azure", "azure_ad"}
    THEN [engine |-> model_id]
    ELSE [model |-> model_id]

formatted_messages(messages) ==
    [i \in 1..Len(messages) |-> [role |-> messages[i][1], content |-> messages[i][2]]]

stop_arg(request_settings) ==
    IF request_settings.stop_sequences # None /\ len(request_settings.stop_sequences) > 0
    THEN request_settings.stop_sequences
    ELSE None

logit_bias_arg(request_settings) ==
    IF request_settings.token_selection_biases # None
       /\ len(request_settings.token_selection_biases) > 0
    THEN request_settings.token_selection_biases
    ELSE PyDict(<<>>)

acreate_kwargs(obj, messages, request_settings, stream) ==
    model_args(obj.api_type, obj.model_id) @@
    [api_key |-> obj.api_key,
     api_type |-> obj.api_type,
     api_base |-> obj.endpoint,
     api_version |-> obj.api_version,
     organization |-> obj.org_id,
     messages |-> formatted_messages(messages),
     temperature |-> request_settings.temperature,
     top_p |-> request_settings.top_p,
     n |-> request_settings.number_of_responses,
     stream |-> stream,
     stop |-> stop_arg(request_settings),
     max_tokens |-> request_settings.max_tokens,
     presence_penalty |-> request_settings.presence_penalty,
     frequency_penalty |-> request_settings.frequency_penalty,
     logit_bias |-> logit_bias_arg(request_settings)]

\* mutant: the cause is dropped
service_error_without_cause(ex) ==
    AIException("ServiceError", "OpenAI service failed to complete the chat", None)

\* except Exception as ex: raise AIException(ServiceError, ..., ex)
service_error(ex) ==
    AIException("ServiceError", "OpenAI service failed to complete the chat", ex)

\* the coroutine runs to its first suspension: it raises, or awaits acreate
_send_chat_request(messages, request_settings, stream) ==
    LET ex == preconditions(messages, request_settings) IN
    IF ex # None
    THEN /\ pc' = "done"
         /\ raised' = ex
         /\ UNCHANGED <<transport_calls, kwargs>>
    ELSE /\ pc' = "awaiting"
         /\ transport_calls' = transport_calls + 1
         /\ kwargs' = acreate_kwargs(self, messages, request_settings, stream)
         /\ UNCHANGED raised

---------------------------------------------------------------------------
(* Text-completion settings to chat settings *)

\* ChatRequestSettings.from_completion_config: every field carried over
from_completion_config(request_settings) ==
    IF request_settings = None
    THEN AttributeError
    ELSE [temperature |-> request_settings.temperature,
          top_p |-> request_settings.top_p,
          presence_penalty |-> request_settings.presence_penalty,
          frequency_penalty |-> request_settings.frequency_penalty,
          max_tokens |-> request_settings.max_tokens,
          number_of_responses |-> request_settings.number_of_responses,
          token_selection_biases |-> request_settings.token_selection_biases,
          stop_sequences |-> request_settings.stop_sequences]

\* mutant: the two penalties exchanged
chat_settings_of_swapped_penalties(request_settings) ==
    IF request_settings = None
    THEN AttributeError
    ELSE [temperature |-> request_settings.temperature,
          top_p |-> request_settings.top_p,
          presence_penalty |-> request_settings.frequency_penalty,
          frequency_penalty |-> request_settings.presence_penalty,
          max_tokens |-> request_settings.max_tokens,
          number_of_responses |-> request_settings.number_of_responses,
          token_selection_biases |-> request_settings.token_selection_biases,
          stop_sequences |-> request_settings.stop_sequences]

\* the ChatRequestSettings(...) call of complete_stream_async; reading a field
\* of None raises AttributeError
chat_settings_of(request_settings) ==
    IF request_settings = None
    THEN AttributeError
    ELSE [temperature |-> request_settings.temperature,
          top_p |-> request_settings.top_p,
          presence_penalty |-> request_settings.presence_penalty,
          frequency_penalty |-> request_settings.frequency_penalty,
          max_tokens |-> request_settings.max_tokens,
          number_of_responses |-> request_settings.number_of_responses,
          token_selection_biases |-> request_settings.token_selection_biases,
          stop_sequences |-> request_settings.stop_sequences]

prompt_to_message(prompt) == << <<"user", prompt>> >>

---------------------------------------------------------------------------
(* Results and frames *)

\* mutant: a single choice is returned as a one-element list
chat_result_always_list(resp) ==
    PyList([i \in 1..Len(resp.choices) |-> resp.choices[i].message.content])

\* complete_chat_async / complete_async: one choice unwrapped, else a list
chat_result(resp) ==
    IF Len(resp.choices) = 1
    THEN PyStr(resp.choices[1].message.content)
    ELSE PyList([i \in 1..Len(resp.choices) |-> resp.choices[i].message.content])

text_result(resp) ==
    IF Len(resp.choices) = 1
    THEN PyStr(resp.choices[1].message.content)
    ELSE PyList([i \in 1..Len(resp.choices) |-> resp.choices[i].message.content])

\* mutant: the role is not followed by ": "
_parse_choices_no_separator(chunk) ==
    LET delta == chunk.choices[1].delta
        m0 == ""
        m1 == IF "role" \in DOMAIN delta THEN m0 \o delta.role ELSE m0
        m2 == IF "content" \in DOMAIN delta THEN m1 \o delta.content ELSE m1
    IN <<m2, chunk.choices[1].index>>

\* _parse_choices: <<message, index>> of the chunk's first choice
_parse_choices(chunk) ==
    LET delta == chunk.choices[1].delta
        m0 == ""
        m1 == IF "role" \in DOMAIN delta THEN m0 \o delta.role \o ": " ELSE m0
        m2 == IF "content" \in DOMAIN delta THEN m1 \o delta.content ELSE m1
    IN <<m2, chunk.choices[1].index>>

\* mutant: the slot is off by one (completions[index - 1] = text)
completions_with_slot_off_by_one(n, index, text) ==
    IF index >= n
    THEN IndexError
    ELSE PyList([k \in 1..n |-> IF k = index THEN text ELSE ""])

\* completions = [""] * n; completions[index] = text (IndexError past the end)
completions_with(n, index, text) ==
    IF index >= n
    THEN IndexError
    ELSE PyList([k \in 1..n |-> IF k = index + 1 THEN text ELSE ""])

\* body of the async for of complete_chat_stream_async: the frame yielded for
\* a chunk, or the exception raised
chat_stream_frame(request_settings, chunk) ==
    LET parsed == _parse_choices(chunk) IN
    IF request_settings.number_of_responses > 1
    THEN completions_with(request_settings.number_of_responses, parsed[2], parsed[1])
    ELSE PyStr(parsed[1])

\* body of the async for of complete_stream_async
text_stream_frame(request_settings, chunk) ==
    LET parsed == _parse_choices(chunk) IN
    IF request_settings.number_of_responses > 1
    THEN completions_with(request_settings.number_of_responses, parsed[2], parsed[1])
    ELSE PyStr(parsed[1])

---------------------------------------------------------------------------
(* State machine *)

Init ==
    /\ self \in {[model_id |-> "gpt-35-turbo", api_key |-> "key", api_type |-> t,
                  org_id |-> None, api_version |-> "2022-12-01",
                  endpoint |-> "https://example.openai.azure.com"] : t \in ApiTypes}
    /\ call = [op |-> "idle"]
    /\ pc = "idle"
    /\ transport_calls = 0
    /\ kwargs = None
    /\ usage = None
    /\ transport_raised = None
    /\ response = None
    /\ chunks = <<>>
    /\ frames = <<>>
    /\ result = None
    /\ raised = None

complete_chat_async(messages, request_settings) ==
    /\ pc = "idle"
    /\ call' = [op |-> "complete_chat_async", messages |-> messages,
                request_settings |-> request_settings]
    /\ _send_chat_request(messages, request_settings, FALSE)
    /\ UNCHANGED <<self, usage, transport_raised, response, chunks, frames, result>>

complete_async(prompt, request_settings) ==
    /\ pc = "idle"
    /\ call' = [op |-> "complete_async", prompt |-> prompt,
                request_settings |-> request_settings]
    /\ LET chat_settings == from_completion_config(request_settings) IN
       IF IsException(chat_settings)
       THEN /\ pc' = "done"
            /\ raised' = chat_settings
            /\ UNCHANGED <<transport_calls, kwargs>>
       ELSE _send_chat_request(prompt_to_message(prompt), chat_settings, FALSE)
    /\ UNCHANGED <<self, usage, transport_raised, response, chunks, frames, result>>

\* calling an async generator function only creates the generator
complete_chat_stream_async(messages, request_settings) ==
    /\ pc = "idle"
    /\ call' = [op |-> "complete_chat_stream_async", messages |-> messages,
                request_settings |-> request_settings]
    /\ pc' = "created"
    /\ UNCHANGED <<self, transport_calls, kwargs, usage, transport_raised, response,
                   chunks, frames, result, raised>>

complete_stream_async(prompt, request_settings) ==
    /\ pc = "idle"
    /\ call' = [op |-> "complete_stream_async", prompt |-> prompt,
                request_settings |-> request_settings]
    /\ pc' = "created"
    /\ UNCHANGED <<self, transport_calls, kwargs, usage, transport_raised, response,
                   chunks, frames, result, raised>>

\* the consumer's first pull runs the generator body up to the await
chat_stream_start ==
    /\ pc = "created"
    /\ call.op = "complete_chat_stream_async"
    /\ _send_chat_request(call.messages, call.request_settings, TRUE)
    /\ UNCHANGED <<self, call, usage, transport_raised, response, chunks, frames, result>>

text_stream_start ==
    /\ pc = "created"
    /\ call.op = "complete_stream_async"
    /\ LET chat_settings == chat_settings_of(call.request_settings) IN
       IF IsException(chat_settings)
       THEN /\ pc' = "done"
            /\ raised' = chat_settings
            /\ UNCHANGED <<transport_calls, kwargs>>
       ELSE _send_chat_request(prompt_to_message(call.prompt), chat_settings, TRUE)
    /\ UNCHANGED <<self, call, usage, transport_raised, response, chunks, frames, result>>

\* acreate raises: caught and re-raised as ServiceError
acreate_raises(ex) ==
    /\ pc = "awaiting"
    /\ transport_raised' = ex
    /\ raised' = service_error(ex)
    /\ pc' = "done"
    /\ UNCHANGED <<self, call, transport_calls, kwargs, usage, response, chunks,
                   frames, result>>

\* acreate returns a completed response (stream=False)
acreate_returns(resp) ==
    /\ pc = "awaiting"
    /\ ~kwargs.stream
    /\ response' = resp
    /\ usage' = IF "usage" \in DOMAIN resp THEN resp.usage ELSE None
    /\ result' = IF call.op = "complete_chat_async"
                 THEN chat_result(resp)
                 ELSE text_result(resp)
    /\ pc' = "done"
    /\ UNCHANGED <<self, call, transport_calls, kwargs, transport_raised, chunks, frames,
                   raised>>

\* acreate returns an open stream of chunks (stream=True), which reports no
\* usage; the generator enters its async for
acreate_returns_stream ==
    /\ pc = "awaiting"
    /\ kwargs.stream
    /\ response' = [stream |-> TRUE]
    /\ pc' = "streaming"
    /\ UNCHANGED <<self, call, transport_calls, kwargs, usage, transport_raised, chunks,
                   frames, result, raised>>

\* the stream delivers a chunk: a frame is yielded, or the loop body raises
stream_chunk(chunk, limit) ==
    /\ pc = "streaming"
    /\ Len(chunks) < limit
    /\ chunks' = Append(chunks, chunk)
    /\ LET frame == IF call.op = "complete_chat_stream_async"
                    THEN chat_stream_frame(call.request_settings, chunk)
                    ELSE text_stream_frame(call.request_settings, chunk)
       IN IF IsException(frame)
          THEN /\ raised' = frame
               /\ pc' = "done"
               /\ UNCHANGED frames
          ELSE /\ frames' = Append(frames, frame)
               /\ UNCHANGED <<pc, raised>>
    /\ UNCHANGED <<self, call, transport_calls, kwargs, usage, transport_raised,
                   response, result>>

\* the provider signals the end: the generator returns
stream_ends ==
    /\ pc = "streaming"
    /\ pc' = "done"
    /\ UNCHANGED <<self, call, transport_calls, kwargs, usage, transport_raised, response,
                   chunks, frames, result, raised>>

\* the transport raises while the next chunk is awaited: the async for is
\* outside every try block, so the exception leaves the generator as it is
stream_raises(ex) ==
    /\ pc = "streaming"
    /\ transport_raised' = ex
    /\ raised' = ex
    /\ pc' = "done"
    /\ UNCHANGED <<self, call, transport_calls, kwargs, usage, response, chunks,
                   frames, result>>

Idle == pc = "idle"
Awaiting == pc = "awaiting"
Streaming == pc = "streaming"

Next ==
    \/ Idle /\ \E m \in Conversations, s \in SettingsArgs : complete_chat_async(m, s)
    \/ Idle /\ \E p \in Prompts, s \in SettingsArgs : complete_async(p, s)
    \/ Idle /\ \E m \in Conversations, s \in SettingsArgs :
                  complete_chat_stream_async(m, s)
    \/ Idle /\ \E p \in Prompts, s \in SettingsArgs : complete_stream_async(p, s)
    \/ chat_stream_start
    \/ text_stream_start
    \/ Awaiting /\ \E ex \in TransportErrors : acreate_raises(ex)
    \/ Awaiting /\ \E resp \in Responses : acreate_returns(resp)
    \/ acreate_returns_stream
    \/ Streaming /\ \E chunk \in Chunks : stream_chunk(chunk, MaxChunks)
    \/ stream_ends
    \/ Streaming /\ \E ex \in TransportErrors : stream_raises(ex)

Spec == Init /\ [][Next]_vars

\* the streaming operations alone, on longer streams
StreamNext ==
    \/ Idle /\ \E m \in StreamConversations, s \in StreamSettings :
                  complete_chat_stream_async(m, s)
    \/ Idle /\ \E p \in Prompts, s \in StreamSettings : complete_stream_async(p, s)
    \/ chat_stream_start
    \/ text_stream_start
    \/ Awaiting /\ \E ex \in TransportErrors : acreate_raises(ex)
    \/ acreate_returns_stream
    \/ Streaming /\ \E chunk \in Chunks : stream_chunk(chunk, MaxStreamChunks)
    \/ stream_ends
    \/ Streaming /\ \E ex \in TransportErrors : stream_raises(ex)

StreamSpec == Init /\ [][StreamNext]_vars

---------------------------------------------------------------------------
(* Properties *)

ChatOps == {"complete_chat_async", "complete_chat_stream_async"}
TextOps == {"complete_async", "complete_stream_async"}
BlockingOps == {"complete_chat_async", "complete_async"}
StreamOps == {"complete_chat_stream_async", "complete_stream_async"}

InCall == call.op # "idle"
HasSettings == InCall /\ call.request_settings # None

IsInvalidRequest(ex) ==
    IsException(ex) /\ ex.type = "AIException" /\ ex.error_code = "InvalidRequest"

IsServiceError(ex) ==
    IsException(ex) /\ ex.type = "AIException" /\ ex.error_code = "ServiceError"

\* one of the three violations C1 names, read off the call's arguments
C1_InvalidArguments ==
    /\ HasSettings
    /\ \/ call.request_settings.max_tokens < 1
       \/ /\ call.op \in ChatOps
          /\ \/ Len(call.messages) = 0
             \/ call.messages[Len(call.messages)][1] # "user"

\* C1: a call with settings present whose max_tokens is below 1, whose message
\* list is empty or whose last message is not from the user issues no
\* transport call, returns and yields nothing, and, once it has run, has
\* failed with an InvalidRequest AIException.
C1_InvalidRequestBeforeTransport ==
    C1_InvalidArguments =>
        /\ transport_calls = 0
        /\ kwargs = None
        /\ result = None
        /\ frames = <<>>
        /\ pc \in {"created", "done"}
        /\ pc = "done" => IsInvalidRequest(raised)

C1_Witness ==
    /\ InCall
    /\ call.op = "complete_chat_stream_async"
    /\ call.request_settings # None
    /\ call.request_settings.max_tokens = 1
    /\ Len(call.messages) = 2
    /\ call.messages[2][1] = "assistant"
    /\ pc = "done"
    /\ IsInvalidRequest(raised)
    /\ transport_calls = 0

\* C2: in complete_chat_async and complete_async, when the transport call
\* fails the caller observes a ServiceError AIException whose inner exception
\* is the exception the transport raised, not that exception itself, and the
\* call has issued exactly one transport call; no blocking call ever issues
\* more than one.
C2_TransportFailureIsServiceError ==
    (InCall /\ call.op \in BlockingOps) =>
        /\ transport_calls <= 1
        /\ transport_raised # None =>
              /\ pc = "done"
              /\ IsServiceError(raised)
              /\ raised.inner_exception = transport_raised
              /\ raised # transport_raised
              /\ transport_calls = 1
              /\ result = None

C2_Witness ==
    /\ InCall
    /\ call.op = "complete_async"
    /\ transport_raised = [type |-> "RateLimitError"]
    /\ IsServiceError(raised)
    /\ raised.inner_exception = [type |-> "RateLimitError"]
    /\ transport_calls = 1

\* C3: a blocking call that succeeds returns the content of the single choice
\* as a string when the response has exactly one choice, and otherwise a list
\* with the content of the i-th choice at position i (three choices give a list
\* of three strings).
C3_ResultFollowsChoices ==
    (InCall /\ call.op \in BlockingOps /\ pc = "done" /\ raised = None) =>
        /\ response # None
        /\ LET choices == response.choices IN
           IF Len(choices) = 1
           THEN result = PyStr(choices[1].message.content)
           ELSE /\ DOMAIN result = {"list"}
                /\ Len(result.list) = Len(choices)
                /\ \A i \in 1..Len(choices) :
                      result.list[i] = choices[i].message.content

C3_Witness ==
    /\ InCall
    /\ call.op = "complete_chat_async"
    /\ pc = "done"
    /\ raised = None
    /\ call.request_settings.number_of_responses = 3
    /\ Len(response.choices) = 3
    /\ result = PyList(<<"A", "B", "A">>)

\* C9: every transport call carries exactly one model-selection key, bound to
\* the stored model identifier: engine (and no model) when api_type is azure
\* or azure_ad, model (and no engine) for any other api_type.
C9_ModelSelectionKey ==
    kwargs # None =>
        IF self.api_type \in {"azure", "azure_ad"}
        THEN /\ "engine" \in DOMAIN kwargs
             /\ "model" \notin DOMAIN kwargs
             /\ kwargs.engine = self.model_id
        ELSE /\ "model" \in DOMAIN kwargs
             /\ "engine" \notin DOMAIN kwargs
             /\ kwargs.model = self.model_id

C9_Witness ==
    /\ kwargs # None
    /\ self.api_type = "azure_ad"
    /\ "engine" \in DOMAIN kwargs
    /\ kwargs.engine = "gpt-35-turbo"
    /\ transport_calls = 1

\* the fragment of a chunk as C4 and C5 describe it
Fragment(chunk) ==
    LET delta == chunk.choices[1].delta IN
    (IF "role" \in DOMAIN delta THEN delta.role \o ": " ELSE "")
        \o (IF "content" \in DOMAIN delta THEN delta.content ELSE "")

ChunkIndex(chunk) == chunk.choices[1].index

StreamingWith(n) ==
    /\ HasSettings
    /\ call.op \in StreamOps
    /\ call.request_settings.number_of_responses = n

\* C4: streaming with number_of_responses = 1, chat or text: the frames are
\* one string per delivered chunk, in chunk order, the k-th being the k-th
\* chunk's fragment alone ("<role>: " if the delta has a role, then the content
\* if it has one, the empty string if it has neither).
C4_SingleResponseFrames ==
    StreamingWith(1) =>
        /\ Len(frames) = Len(chunks)
        /\ \A k \in 1..Len(chunks) : frames[k] = PyStr(Fragment(chunks[k]))

C4_Witness ==
    /\ StreamingWith(1)
    /\ call.op = "complete_stream_async"
    /\ Len(chunks) = 3
    /\ "role" \in DOMAIN chunks[1].choices[1].delta
    /\ frames = <<PyStr("assistant: "), PyStr("Hi"), PyStr("")>>

\* C5: streaming with number_of_responses = n > 1: every chunk whose index i
\* is in 0..n-1 yields a list of length n holding the chunk's fragment in slot
\* i and the empty string in every other slot, whatever chunks came before.
C5_MultiResponseFrames ==
    \A n \in ResponseCounts \ {1} :
        StreamingWith(n) =>
            /\ Len(frames) <= Len(chunks)
            /\ \A k \in 1..Len(chunks) :
                  ChunkIndex(chunks[k]) < n =>
                      /\ k <= Len(frames)
                      /\ frames[k] =
                            PyList([j \in 1..n |->
                                      IF j = ChunkIndex(chunks[k]) + 1
                                      THEN Fragment(chunks[k])
                                      ELSE ""])

C5_Witness ==
    /\ StreamingWith(2)
    /\ call.op = "complete_chat_stream_async"
    /\ Len(chunks) = 2
    /\ ChunkIndex(chunks[1]) = 1
    /\ ChunkIndex(chunks[2]) = 0
    /\ frames = <<PyList(<<"", "Hi">>), PyList(<<"Hi", "">>)>>

\* what C6 expects of a text operation: the chat operation on [(user, prompt)]
\* with the text settings' fields as chat settings
C6_Messages == << <<"user", call.prompt>> >>
C6_Stream == call.op = "complete_stream_async"

\* C6: complete_async(p, s) and complete_stream_async(p, s), s present, behave
\* as the chat operations on the conversation [(user, p)] with s's fields as
\* chat settings: same validation outcome, a transport call with the same
\* arguments and the messages [{role: user, content: p}], the same result for
\* a response and the same frame for every chunk.
C6_TextDelegatesToChat ==
    (HasSettings /\ call.op \in TextOps) =>
        LET s == call.request_settings
            failure == preconditions(C6_Messages, s)
        IN /\ failure # None =>
                 /\ transport_calls = 0
                 /\ pc = "done" => raised = failure
           /\ (failure = None /\ pc # "created") =>
                 /\ transport_calls = 1
                 /\ kwargs = acreate_kwargs(self, C6_Messages, s, C6_Stream)
                 /\ kwargs.messages = <<[role |-> "user", content |-> call.prompt]>>
           /\ (pc = "done" /\ raised = None /\ ~C6_Stream) =>
                 result = chat_result(response)
           /\ \A k \in 1..Len(chunks) :
                 LET frame == chat_stream_frame(s, chunks[k]) IN
                 IF IsException(frame)
                 THEN k = Len(chunks) /\ Len(frames) = k - 1 /\ raised = frame
                 ELSE k <= Len(frames) /\ frames[k] = frame

C6_Witness ==
    /\ HasSettings
    /\ call.op = "complete_stream_async"
    /\ call.prompt = "Hello"
    /\ call.request_settings.presence_penalty = 1
    /\ call.request_settings.frequency_penalty = 2
    /\ call.request_settings.number_of_responses = 2
    /\ transport_calls = 1
    /\ kwargs.messages = <<[role |-> "user", content |-> "Hello"]>>
    /\ kwargs.presence_penalty = 1
    /\ kwargs.frequency_penalty = 2
    /\ Len(frames) = 1

C8_StreamFailureIsServiceError ==
    (InCall /\ call.op \in StreamOps /\ transport_raised # None) =>
        /\ pc = "done"
        /\ IsServiceError(raised)
        /\ raised.inner_exception = transport_raised

====
